---- MODULE Spec2Model ----
(***************************************************************************)
(* Launch and surface bootstrap of neovide:                                *)
(*   src/src/bridge/command.rs   building the command that starts nvim     *)
(*   src/src/renderer/opengl.rs  building the OpenGL context, render size  *)
(*                                                                         *)
(* A Rust String is modelled as a sequence of one-character strings, a     *)
(* Vec<String> as a sequence of such sequences, an Option<T> as <<"None">> *)
(* or <<"Some", v>>, a byte buffer as a sequence of numbers in 0..255.     *)
(***************************************************************************)
EXTENDS Integers, Sequences, FiniteSets, TLC

VARIABLES
    \* ---- bridge/command.rs
    cfg,          \* target_os, build profile, CmdLineSettings, environment
    pc,           \* position of create_nvim_command
    fatal,        \* "none", or how the run ended: an exit(1) or a panic
    bin,          \* the binary build_nvim_cmd_with_args was called with
    confirmedOn,  \* where that binary was found: <<"host", <<>>>>, <<"wsl", distro>>
    rejected,     \* <<target, path>> of an explicit path that failed validation
    existsCmd,    \* Option: the shell command platform_exists built
    existsProbe,  \* what the existence check answered
    whichCmd,     \* Option: the shell command platform_which built
    whichProbe,   \* what the shell probe of platform_which answered
    whichStdout,  \* stdout of that probe when it exited with success
    whichCrate,   \* what which::which answered ("none": not consulted)
    distroProbe,  \* what "wsl -l -q" answered to check_wsl_distro
    baseArgs,     \* the args build_nvim_cmd_with_args handed to nvim_cmd_impl
    cmd,          \* the command built (the LaunchSpec)
    log,          \* the log records emitted, in order
    \* ---- renderer/opengl.rs
    glpc,         \* position of build_context
    glfatal,      \* "none", or the panic that ended build_context
    glcfg,        \* CmdLineSettings read by build_context (vsync, srgb)
    candidates,   \* the configs the display offers, in its order
    window,       \* inner size of the window, <<>> before it is built
    config,       \* the config gen_config picked, 0 before
    size,         \* the clamped size build_context computed, <<>> before
    surface,      \* <<width, height, srgb>> the surface was created with, <<>> before
    context,      \* "none", "not_current", "current"
    swapInterval, \* "unset", "wait1", "dontwait"
    steps,        \* the construction steps performed, in order
    target,       \* latest call of get_render_target_size: <<window size, answer>>
    resizes,      \* window resizes seen after construction
    \* ---- check_wsl_distro as a function of the probe's answer
    wdistro,      \* the distribution asked for
    wprobe,       \* the probe's answer
    wresult       \* "pending", "true", "false", "panic"

bridgeVars == <<cfg, pc, fatal, bin, confirmedOn, rejected, existsCmd, existsProbe, whichCmd,
                whichProbe, whichStdout, whichCrate, distroProbe, baseArgs, cmd, log>>
glVars == <<glpc, glfatal, glcfg, candidates, window, config, size, surface, context, swapInterval,
            steps, target, resizes>>
wslVars == <<wdistro, wprobe, wresult>>
vars == <<bridgeVars, glVars, wslVars>>

-----------------------------------------------------------------------------
\* Bounds of the model

\* longest list of extra arguments (CmdLineSettings.neovim_args)
MaxArgs == 2
\* longest stdout, in bytes, of "wsl -l -q" given to check_wsl_distro alone
MaxProbeBytes == 5
\* window resizes followed after build_context returned
MaxResizes == 1
\* most configs the display offers
MaxCandidates == 3

-----------------------------------------------------------------------------
\* Option<T>

None == <<"None">>
Some(v) == <<"Some", v>>
IsSome(o) == o[1] = "Some"
Unwrap(o) == o[2]

-----------------------------------------------------------------------------
\* Strings the code names

S_embed == <<"-", "-", "e", "m", "b", "e", "d">>
S_nvim == <<"n", "v", "i", "m">>
S_wsl == <<"w", "s", "l">>
S_SHELL == <<"$", "S", "H", "E", "L", "L">>
S_lc == <<"-", "l", "c">>
S_l == <<"-", "l">>
S_c == <<"-", "c">>
S_d == <<"-", "d">>
S_x == <<"-", "x">>
S_which == <<"w", "h", "i", "c", "h">>
S_exists == <<"e", "x", "i", "s", "t", "s">>
S_bin_sh == <<"/", "b", "i", "n", "/", "s", "h">>

\* Sample values of the configuration and of the environment
P_opt == <<"/", "o", "p", "t", "/", "n", "v", "i", "m">>
P_usr == <<"/", "u", "s", "r", "/", "b", "i", "n", "/", "n", "v", "i", "m">>
Paths == {P_opt, P_usr}
S_zsh == <<"/", "b", "i", "n", "/", "z", "s", "h">>
A_dashes == <<"-", "-">>
A_file == <<"f", ".", "t", "x", "t">>
A_special == <<"a", " ", "$", "b">>
ArgSamples == {A_dashes, A_file, A_special}
D_U == <<"U">>
D_UU == <<"U", "U">>
DistroNames == {D_U, D_UU}

-----------------------------------------------------------------------------
\* String functions

RECURSIVE Flatten(_)
Flatten(ss) == IF ss = <<>> THEN <<>> ELSE Head(ss) \o Flatten(Tail(ss))

\* [String]::join(sep)
RECURSIVE join(_, _)
join(ss, sep) ==
    IF ss = <<>> THEN <<>>
    ELSE IF Len(ss) = 1 THEN ss[1]
    ELSE ss[1] \o sep \o join(Tail(ss), sep)

\* format!("{} {}", a, b)
format2(a, b) == a \o <<" ">> \o b

Whitespace == {" ", "\n", "\r", "\t"}

\* str::trim: whitespace removed at both ends
trim(s) ==
    LET keep == {i \in 1..Len(s) : s[i] \notin Whitespace}
    IN  IF keep = {} THEN <<>>
        ELSE LET lo == CHOOSE i \in keep : \A j \in keep : i <= j
                 hi == CHOOSE i \in keep : \A j \in keep : j <= i
             IN  SubSeq(s, lo, hi)

\* The character U+0060, which a string of this language cannot hold
Backtick == "U+0060"

\* shlex::quote
QuoteTriggers == {"|", "&", ";", "<", ">", "(", ")", "$", Backtick, "\\", "\"", "'", " ",
                  "\t", "\r", "\n", "*", "?", "[", "#", "~", "=", "%"}
QuoteEscaped == {"$", Backtick, "\"", "\\"}
quote(s) ==
    IF s = <<>> THEN <<"\"", "\"">>
    ELSE IF \E i \in 1..Len(s) : s[i] \in QuoteTriggers
    THEN <<"\"">>
         \o Flatten([i \in 1..Len(s) |->
                        IF s[i] \in QuoteEscaped THEN <<"\\", s[i]>> ELSE <<s[i]>>])
         \o <<"\"">>
    ELSE s

-----------------------------------------------------------------------------
\* std::process::Command / tokio::process::Command

CREATE_NO_WINDOW == 134217728

Command(program, args) ==
    [program |-> program, args |-> args, creation_flags |-> 0, stderr |-> "default"]

NoCommand == Command(<<>>, <<>>)

Host == <<"host", <<>>>>

\* Where a command runs its last argument: "wsl" runs it in the distribution "-d"
\* selects, in the default distribution without "-d"; any other program runs on the host.
TargetOf(c) ==
    IF c.program = S_wsl
    THEN <<"wsl", IF Len(c.args) >= 2 /\ c.args[1] = S_d
                  THEN c.args[2] ELSE cfg.default_distro>>
    ELSE Host

Logged(level, msg) == [level |-> level, msg |-> msg]

-----------------------------------------------------------------------------
\* check_wsl_distro: decoding the stdout of "wsl -l -q"

\* The answer of a helper process: <<"Err">> when it could not be run, else
\* <<"Ok", success, stdout>>
ProbeErr == <<"Err">>
ProbeOk(success, stdout) == <<"Ok", success, stdout>>
ProbeRan(p) == p[1] = "Ok"

IsHighSurrogate(u) == 55296 <= u /\ u <= 56319
IsLowSurrogate(u) == 56320 <= u /\ u <= 57343

\* char of a code point
Chr(cp) ==
    CASE cp = 85 -> "U"
      [] cp = 10 -> "\n"
      [] cp = 13 -> "\r"
      [] OTHER -> "U+" \o ToString(cp)

\* code point of the chars the samples are written with
Ord(c) ==
    CASE c = "U" -> 85
      [] c = "\n" -> 10
      [] c = "\r" -> 13

\* stdout.chunks(2).map(|bytes| u16::from_ne_bytes([bytes[0], bytes[1]])); the hosts
\* that have wsl are little-endian. Defined for an even number of bytes only: on the
\* last chunk of an odd number, bytes[1] is out of bounds.
from_ne_bytes(bytes) ==
    [i \in 1..(Len(bytes) \div 2) |-> bytes[2 * i - 1] + 256 * bytes[2 * i]]

RECURSIVE utf16_chars(_)
utf16_chars(u) ==
    IF u = <<>> THEN <<>>
    ELSE IF IsHighSurrogate(u[1])
    THEN <<Chr(65536 + (u[1] - 55296) * 1024 + (u[2] - 56320))>>
         \o utf16_chars(Tail(Tail(u)))
    ELSE <<Chr(u[1])>> \o utf16_chars(Tail(u))

\* String::from_utf16: Err on an unpaired surrogate
from_utf16(u) ==
    IF \A i \in 1..Len(u) :
          /\ IsHighSurrogate(u[i]) => i < Len(u) /\ IsLowSurrogate(u[i + 1])
          /\ IsLowSurrogate(u[i]) => i > 1 /\ IsHighSurrogate(u[i - 1])
    THEN <<"Ok", utf16_chars(u)>>
    ELSE <<"Err">>

\* str::lines: lines end at "\n" or "\r\n"; the last line needs no ending
RECURSIVE lines(_)
lines(s) ==
    IF s = <<>> THEN <<>>
    ELSE LET nls == {i \in 1..Len(s) : s[i] = "\n"}
         IN  IF nls = {} THEN <<s>>
             ELSE LET nl == CHOOSE i \in nls : \A j \in nls : i <= j
                      line == SubSeq(s, 1, nl - 1)
                      stripped == IF line # <<>> /\ line[Len(line)] = "\r"
                                  THEN SubSeq(line, 1, Len(line) - 1) ELSE line
                  IN  <<stripped>> \o lines(SubSeq(s, nl + 1, Len(s)))

\* "true", "false", or "panic" (index out of bounds)
check_wsl_distro(distro, child) ==
    IF ~ProbeRan(child) THEN "false"
    ELSE IF Len(child[3]) % 2 = 1 THEN "panic"
    ELSE LET decoded == from_utf16(from_ne_bytes(child[3]))
         IN  IF decoded[1] = "Err" THEN "false"
             ELSE IF \E i \in DOMAIN lines(decoded[2]) : lines(decoded[2])[i] = distro
             THEN "true" ELSE "false"

\* UTF-16, little-endian, of a string of the sample chars
Utf16Le(s) == Flatten([i \in 1..Len(s) |-> <<Ord(s[i]) % 256, Ord(s[i]) \div 256>>])

\* Answers of "wsl -l -q" the launch is followed with
WslListSamples ==
    { ProbeErr,
      ProbeOk(TRUE, <<>>),
      ProbeOk(TRUE, Utf16Le(<<"U", "\r", "\n">>)),
      ProbeOk(TRUE, Utf16Le(<<"U", "U", "\r", "\n", "U", "\r", "\n">>)),
      ProbeOk(TRUE, <<85>>),
      ProbeOk(TRUE, <<0, 216>>) }

\* Bytes the stdout given to check_wsl_distro alone is made of: "U", "\n", "\r"
\* and the high bytes of a high and of a low surrogate
ByteSamples == {0, 10, 13, 85, 216, 220}

RECURSIVE SeqsUpTo(_, _)
SeqsUpTo(S, n) ==
    IF n = 0 THEN {<<>>}
    ELSE LET shorter == SeqsUpTo(S, n - 1)
         IN  shorter \cup {Append(q, x) : q \in {r \in shorter : Len(r) = n - 1}, x \in S}

-----------------------------------------------------------------------------
\* bridge/command.rs

\* Creates a shell command if needed on this platform (wsl or macos)
create_platform_shell_command(command, args) ==
    IF cfg.target_os = "windows" /\ cfg.wsl
    THEN Some([Command(S_wsl, <<S_SHELL, S_lc, format2(command, join(args, <<" ">>))>>)
                  EXCEPT !.creation_flags = CREATE_NO_WINDOW])
    ELSE IF cfg.target_os = "macos"
    THEN Some(Command(IF IsSome(cfg.SHELL) THEN Unwrap(cfg.SHELL) ELSE S_bin_sh,
                      (IF ~cfg.TERM THEN <<S_l>> ELSE <<>>)
                          \o <<S_c, format2(command, join(args, <<" ">>))>>))
    ELSE None

\* The command platform_exists asks, None where it asks the file system
platform_exists_command(path) ==
    IF cfg.target_os = "windows"
    THEN create_platform_shell_command(S_exists, <<S_x, path>>)
    ELSE None

\* What the existence check may answer: the probe <<"Err">> or <<"Ok", success, _>>,
\* Path::exists <<"Path", exists>>
ExistsAnswers(ec) ==
    IF IsSome(ec)
    THEN {ProbeErr, ProbeOk(TRUE, <<>>), ProbeOk(FALSE, <<>>)}
    ELSE {<<"Path", TRUE>>, <<"Path", FALSE>>}

\* "true", "false", or "exit" (error!("Exists failed"); std::process::exit(1))
platform_exists(ec, answer) ==
    IF IsSome(ec)
    THEN IF ProbeRan(answer) THEN (IF answer[2] THEN "true" ELSE "false") ELSE "exit"
    ELSE IF answer[2] THEN "true" ELSE "false"

\* stdout of the which probe: <<"utf8", chars>> or <<"not_utf8">>
WhichStdoutSamples ==
    {<<"utf8", p \o <<"\n">>>> : p \in Paths}
        \cup {<<"utf8", <<" ">> \o P_usr \o <<"\r", "\n">>>>, <<"not_utf8">>}

WhichProbeAnswers ==
    {ProbeErr, ProbeOk(FALSE, <<"utf8", <<>>>>)}
        \cup {ProbeOk(TRUE, out) : out \in WhichStdoutSamples}

\* which::which: <<"Err">>, <<"Ok", "utf8", path>>, or a path that is not UTF-8
WhichCrateAnswers == {<<"Err">>, <<"Ok", "not_utf8">>} \cup {<<"Ok", "utf8", p>> : p \in Paths}

\* <<"ret", Option<String>>> or <<"panic">> (String::from_utf8(..).unwrap()).
\* crate is read only when there is no shell command or it could not be run.
platform_which(wc, probe, crate) ==
    IF IsSome(wc) /\ ProbeRan(probe)
    THEN IF probe[2]
         THEN IF probe[3][1] = "utf8"
              THEN <<"ret", Some(trim(probe[3][2]))>>
              ELSE <<"panic">>
         ELSE <<"ret", None>>
    ELSE IF crate[1] = "Ok" /\ crate[2] = "utf8"
         THEN <<"ret", Some(crate[3])>>
         ELSE <<"ret", None>>

\* base_args with the embedding flag pushed after the configured arguments
base_args_embed_last(neovim_args) == neovim_args \o <<S_embed>>

\* let mut args = vec!["--embed".to_string()]; args.extend(neovim_args)
base_args(neovim_args) == <<S_embed>> \o neovim_args

\* nvim_cmd_impl for macos with the test of TERM inverted
nvim_cmd_impl_macos_term_inverted(b, args) ==
    Command(IF IsSome(cfg.SHELL) THEN Unwrap(cfg.SHELL) ELSE S_bin_sh,
            (IF cfg.TERM THEN <<S_l>> ELSE <<>>)
                \o <<S_c, format2(b, join([i \in 1..Len(args) |-> quote(args[i])], <<" ">>))>>)

\* #[cfg(target_os = "macos")] nvim_cmd_impl
nvim_cmd_impl_macos(b, args) ==
    Command(IF IsSome(cfg.SHELL) THEN Unwrap(cfg.SHELL) ELSE S_bin_sh,
            (IF ~cfg.TERM THEN <<S_l>> ELSE <<>>)
                \o <<S_c, format2(b, join([i \in 1..Len(args) |-> quote(args[i])], <<" ">>))>>)

\* verified: what check_wsl_distro returned for a configured distro ("true", "false")
nvim_windows_cmd_impl(b, distro, bin_args, verified) ==
    Command(S_wsl,
            (IF IsSome(distro) /\ verified = "true" THEN <<S_d, Unwrap(distro)>> ELSE <<>>)
                \o <<S_SHELL, S_lc>>
                \o <<format2(b, join(bin_args, <<" ">>))>>)

\* nvim_cmd_impl without the test of the target: wsl alone decides
nvim_cmd_impl_other_any_os(b, args, verified) ==
    IF cfg.wsl
    THEN nvim_windows_cmd_impl(b, cfg.wsl_distro, args, verified)
    ELSE Command(b, args)

\* #[cfg(not(target_os = "macos"))] nvim_cmd_impl
nvim_cmd_impl_other(b, args, verified) ==
    IF cfg.target_os = "windows" /\ cfg.wsl
    THEN nvim_windows_cmd_impl(b, cfg.wsl_distro, args, verified)
    ELSE Command(b, args)

nvim_cmd_impl(b, args, verified) ==
    IF cfg.target_os = "macos"
    THEN nvim_cmd_impl_macos(b, args)
    ELSE nvim_cmd_impl_other(b, args, verified)

\* check_wsl_distro is called when nvim_windows_cmd_impl runs with a distro
ChecksDistro == cfg.target_os = "windows" /\ cfg.wsl /\ IsSome(cfg.wsl_distro)

InitBridge ==
    /\ cfg \in [target_os : {"linux", "macos", "windows"},
                debug_assertions : BOOLEAN,
                neovim_bin : {None, Some(P_opt)},
                neovim_args : SeqsUpTo(ArgSamples, MaxArgs),
                wsl : BOOLEAN,
                wsl_distro : {None} \cup {Some(d) : d \in DistroNames},
                SHELL : {None, Some(S_zsh)},
                TERM : BOOLEAN,
                default_distro : DistroNames]
    /\ pc = "start"
    /\ fatal = "none"
    /\ bin = <<>>
    /\ confirmedOn = <<>>
    /\ rejected = <<>>
    /\ existsCmd = None
    /\ existsProbe = <<"none">>
    /\ whichCmd = None
    /\ whichProbe = <<"none">>
    /\ whichStdout = <<"none">>
    /\ whichCrate = <<"none">>
    /\ distroProbe = <<"none">>
    /\ baseArgs = <<>>
    /\ cmd = NoCommand
    /\ log = <<>>

\* build_nvim_cmd, the configured path: lines 37-43
BuildNvimCmd ==
    /\ pc = "start"
    /\ IF IsSome(cfg.neovim_bin)
       THEN LET path == Unwrap(cfg.neovim_bin)
                ec == platform_exists_command(path)
                on == IF IsSome(ec) THEN TargetOf(Unwrap(ec)) ELSE Host
            IN  /\ existsCmd' = ec
                /\ \E answer \in ExistsAnswers(ec) :
                      LET exists == platform_exists(ec, answer)
                      IN  /\ existsProbe' = answer
                          /\ pc' = CASE exists = "true" -> "with_args"
                                     [] exists = "false" -> "which"
                                     [] exists = "exit" -> "exit"
                          /\ fatal' = IF exists = "exit" THEN "exit(1): Exists failed" ELSE fatal
                          /\ bin' = IF exists = "true" THEN path ELSE bin
                          /\ confirmedOn' = IF exists = "true" THEN on ELSE confirmedOn
                          /\ rejected' = IF exists = "false" THEN <<on, path>> ELSE rejected
                          /\ log' = CASE exists = "true" -> log
                                      [] exists = "false" ->
                                           Append(log, Logged("warn", "NEOVIM_BIN is invalid falling back to first bin in PATH"))
                                      [] exists = "exit" ->
                                           Append(log, Logged("error", "Exists failed"))
       ELSE /\ pc' = "which"
            /\ UNCHANGED <<fatal, existsCmd, existsProbe, bin, confirmedOn, rejected, log>>
    /\ UNCHANGED <<cfg, whichCmd, whichProbe, whichStdout, whichCrate, distroProbe,
                   baseArgs, cmd>>

\* build_nvim_cmd, discovery: lines 44-49, with platform_which
PlatformWhich ==
    /\ pc = "which"
    /\ LET wc == create_platform_shell_command(S_which, <<S_nvim>>)
       IN  /\ whichCmd' = wc
           /\ \E probe \in (IF IsSome(wc) THEN WhichProbeAnswers ELSE {<<"none">>}),
                 crate \in WhichCrateAnswers :
                 LET consulted == ~(IsSome(wc) /\ ProbeRan(probe))
                     found == platform_which(wc, probe, crate)
                     on == IF consulted THEN Host ELSE TargetOf(Unwrap(wc))
                     \* debug!("Running which command: {:?}", which_command)
                     logged == IF IsSome(wc)
                               THEN Append(log, Logged("debug", "Running which command"))
                               ELSE log
                 IN  \* one answer of which::which stands for all when it is not asked
                     /\ ~consulted => crate = <<"Err">>
                     \* a path just found missing on a target is not found there now
                     /\ (found[1] = "ret" /\ IsSome(found[2]))
                            => <<on, Unwrap(found[2])>> # rejected
                     /\ whichProbe' = (IF ProbeRan(probe) THEN <<"Ok", probe[2]>> ELSE probe)
                     /\ whichStdout' = (IF ProbeRan(probe) /\ probe[2] THEN probe[3]
                                        ELSE <<"none">>)
                     /\ whichCrate' = (IF consulted THEN crate ELSE <<"none">>)
                     /\ IF found[1] = "panic"
                        THEN /\ pc' = "panic"
                             /\ fatal' = "panic: String::from_utf8(..).unwrap()"
                             /\ log' = logged
                             /\ UNCHANGED <<bin, confirmedOn>>
                        ELSE IF IsSome(found[2])
                        THEN /\ pc' = "with_args"
                             /\ bin' = Unwrap(found[2])
                             /\ confirmedOn' = on
                             /\ log' = logged
                             /\ UNCHANGED fatal
                        ELSE /\ pc' = "exit"
                             /\ fatal' = "exit(1): nvim not found!"
                             /\ log' = Append(logged, Logged("error", "nvim not found!"))
                             /\ UNCHANGED <<bin, confirmedOn>>
    /\ UNCHANGED <<cfg, rejected, existsCmd, existsProbe, distroProbe, baseArgs, cmd>>

\* build_nvim_cmd_with_args, with nvim_cmd_impl and nvim_windows_cmd_impl
BuildNvimCmdWithArgs ==
    /\ pc = "with_args"
    /\ baseArgs' = base_args(cfg.neovim_args)
    /\ \E child \in (IF ChecksDistro THEN WslListSamples ELSE {<<"none">>}) :
          LET verified == IF ChecksDistro
                          THEN check_wsl_distro(Unwrap(cfg.wsl_distro), child)
                          ELSE "none"
          IN  /\ distroProbe' = child
              /\ IF verified = "panic"
                 THEN /\ pc' = "panic"
                      /\ fatal' = "panic: index out of bounds"
                      /\ UNCHANGED <<cmd, log>>
                 ELSE /\ pc' = "built"
                      /\ UNCHANGED fatal
                      /\ cmd' = nvim_cmd_impl(bin, baseArgs', verified)
                      /\ log' = IF verified = "false"
                                THEN Append(log, Logged("warn", "WSL Distro does not exist, using default instead."))
                                ELSE log
    /\ UNCHANGED <<cfg, bin, confirmedOn, rejected, existsCmd, existsProbe, whichCmd,
                   whichProbe, whichStdout, whichCrate>>

\* create_nvim_command, once build_nvim_cmd returned: lines 17-28
CreateNvimCommand ==
    /\ pc = "built"
    /\ log' = Append(log, Logged("debug", "Starting neovim with"))
    /\ cmd' = [cmd EXCEPT
                  !.stderr = IF cfg.debug_assertions THEN "inherit" ELSE "piped",
                  !.creation_flags = IF cfg.target_os = "windows"
                                     THEN CREATE_NO_WINDOW ELSE @]
    /\ pc' = "done"
    /\ UNCHANGED <<cfg, fatal, bin, confirmedOn, rejected, existsCmd, existsProbe, whichCmd,
                   whichProbe, whichStdout, whichCrate, distroProbe, baseArgs>>

-----------------------------------------------------------------------------
\* renderer/opengl.rs

\* gl::MAX_RENDERBUFFER_SIZE, the GLenum GL_MAX_RENDERBUFFER_SIZE (0x84E8)
MAX_RENDERBUFFER_SIZE == 34024

\* A u32 far above the limit. u32 ends at 2^32 - 1, TLC's integers at
\* 2^31 - 1; clamp compares, so every value above the limit is treated alike.
HugeSize == 65535 * 32768

\* clamp without its lower bound
clamp_no_floor(v, min, max) == IF v > max THEN max ELSE v

\* Ord::clamp
clamp(v, min, max) == IF v < min THEN min ELSE IF v > max THEN max ELSE v

\* clamp_render_buffer_size that passes the height through
clamp_render_buffer_size_width_only(sz) ==
    <<clamp(sz[1], 1, MAX_RENDERBUFFER_SIZE), sz[2]>>

\* PhysicalSize<u32> as <<width, height>>
clamp_render_buffer_size(sz) ==
    <<clamp(sz[1], 1, MAX_RENDERBUFFER_SIZE), clamp(sz[2], 1, MAX_RENDERBUFFER_SIZE)>>

\* config_iterator.next().unwrap(): 0 stands for the panic on an empty iterator
gen_config(config_iterator) ==
    IF config_iterator = <<>> THEN 0 ELSE Head(config_iterator)

\* Widths and heights a window reports
SizeSamples == {0, 1, 2, MAX_RENDERBUFFER_SIZE, MAX_RENDERBUFFER_SIZE + 1, HugeSize}

InitGL ==
    /\ glpc = "start"
    /\ glfatal = "none"
    /\ glcfg \in [vsync : BOOLEAN, srgb : BOOLEAN]
    /\ \E n \in 0..MaxCandidates : candidates = [i \in 1..n |-> i]
    /\ window = <<>>
    /\ config = 0
    /\ size = <<>>
    /\ surface = <<>>
    /\ context = "none"
    /\ swapInterval = "unset"
    /\ steps = <<>>
    /\ target = <<>>
    /\ resizes = 0

\* DisplayBuilder::build with gen_config, and the window: lines 68-78
BuildWindow ==
    /\ glpc = "start"
    /\ \E ok \in BOOLEAN, w \in SizeSamples, h \in SizeSamples :
          IF ok /\ gen_config(candidates) # 0
          THEN /\ config' = gen_config(candidates)
               /\ window' = <<w, h>>
               /\ steps' = Append(steps, "window")
               /\ glpc' = "window"
               /\ UNCHANGED glfatal
          ELSE \* a panic does not depend on the size of a window never built
               /\ w = 0 /\ h = 0
               /\ glpc' = "panic"
               /\ glfatal' = IF ok THEN "panic: config_iterator.next().unwrap()"
                              ELSE "panic: Failed to create Window"
               /\ UNCHANGED <<config, window, steps>>
    /\ UNCHANGED <<glcfg, candidates, size, surface, context, swapInterval, target, resizes>>

\* let size = clamp_render_buffer_size(window.inner_size()): line 80
ClampSize ==
    /\ glpc = "window"
    /\ size' = clamp_render_buffer_size(window)
    /\ steps' = Append(steps, "clamp")
    /\ glpc' = "clamped"
    /\ UNCHANGED <<glfatal, glcfg, candidates, window, config, surface, context, swapInterval,
                   target, resizes>>

\* the surface attributes and create_window_surface: lines 82-90
CreateSurface ==
    /\ glpc = "clamped"
    /\ \E ok \in BOOLEAN :
          IF size[1] = 0 \/ size[2] = 0
          THEN /\ ok
               /\ glpc' = "panic"
               /\ glfatal' = "panic: NonZeroU32::new(..).unwrap()"
               /\ UNCHANGED <<surface, steps>>
          ELSE IF ok
          THEN /\ surface' = <<size[1], size[2], glcfg.srgb>>
               /\ steps' = Append(steps, "surface")
               /\ glpc' = "surface"
               /\ UNCHANGED glfatal
          ELSE /\ glpc' = "panic"
               /\ glfatal' = "panic: Failed to create Windows Surface"
               /\ UNCHANGED <<surface, steps>>
    /\ UNCHANGED <<glcfg, candidates, window, config, size, context, swapInterval,
                   target, resizes>>

\* create_context: lines 92-96
CreateContext ==
    /\ glpc = "surface"
    /\ \E ok \in BOOLEAN :
          IF ok
          THEN /\ context' = "not_current"
               /\ steps' = Append(steps, "context")
               /\ glpc' = "context"
               /\ UNCHANGED glfatal
          ELSE /\ glpc' = "panic"
               /\ glfatal' = "panic: Failed to create OpenGL context"
               /\ UNCHANGED <<context, steps>>
    /\ UNCHANGED <<glcfg, candidates, window, config, size, surface, swapInterval,
                   target, resizes>>

\* .make_current(&surface).unwrap(): lines 97-98
MakeCurrent ==
    /\ glpc = "context"
    /\ \E ok \in BOOLEAN :
          IF ok
          THEN /\ context' = "current"
               /\ steps' = Append(steps, "make_current")
               /\ glpc' = "current"
               /\ UNCHANGED glfatal
          ELSE /\ glpc' = "panic"
               /\ glfatal' = "panic: make_current(..).unwrap()"
               /\ UNCHANGED <<context, steps>>
    /\ UNCHANGED <<glcfg, candidates, window, config, size, surface, swapInterval,
                   target, resizes>>

\* set_swap_interval, its result dropped, and the Context returned: lines 100-112
SetSwapInterval ==
    /\ glpc = "current"
    /\ swapInterval' = IF glcfg.vsync THEN "wait1" ELSE "dontwait"
    /\ steps' = Append(steps, "set_swap_interval")
    /\ glpc' = "returned"
    /\ UNCHANGED <<glfatal, glcfg, candidates, window, config, size, surface, context, target,
                   resizes>>

\* The window system resizes the window
WindowResized ==
    /\ glpc = "returned"
    /\ resizes < MaxResizes
    /\ \E w \in SizeSamples, h \in SizeSamples : window' = <<w, h>>
    /\ resizes' = resizes + 1
    /\ UNCHANGED <<glpc, glfatal, glcfg, candidates, config, size, surface, context, swapInterval,
                   steps, target>>

\* Context::get_render_target_size: lines 54-56
GetRenderTargetSize ==
    /\ glpc = "returned"
    /\ target' = <<window, clamp_render_buffer_size(window)>>
    /\ UNCHANGED <<glpc, glfatal, glcfg, candidates, window, config, size, surface, context,
                   swapInterval, steps, resizes>>

-----------------------------------------------------------------------------
\* check_wsl_distro on its own, over every short stdout of the probe

InitWsl ==
    /\ wdistro \in DistroNames
    /\ wprobe \in {ProbeErr}
                     \cup {ProbeOk(TRUE, b) : b \in SeqsUpTo(ByteSamples, MaxProbeBytes)}
    /\ wresult = "pending"

CheckWslDistro ==
    /\ wresult = "pending"
    /\ wresult' = check_wsl_distro(wdistro, wprobe)
    /\ UNCHANGED <<wdistro, wprobe>>

-----------------------------------------------------------------------------
\* Specifications. The launch and the surface are built independently of each
\* other; each is followed with the other at rest.

IdleBridge ==
    /\ cfg = [target_os |-> "linux", debug_assertions |-> FALSE, neovim_bin |-> None,
              neovim_args |-> <<>>, wsl |-> FALSE, wsl_distro |-> None, SHELL |-> None,
              TERM |-> FALSE, default_distro |-> D_U]
    /\ pc = "idle"
    /\ fatal = "none"
    /\ bin = <<>>
    /\ confirmedOn = <<>>
    /\ rejected = <<>>
    /\ existsCmd = None
    /\ existsProbe = <<"none">>
    /\ whichCmd = None
    /\ whichProbe = <<"none">>
    /\ whichStdout = <<"none">>
    /\ whichCrate = <<"none">>
    /\ distroProbe = <<"none">>
    /\ baseArgs = <<>>
    /\ cmd = NoCommand
    /\ log = <<>>

IdleGL ==
    /\ glpc = "idle"
    /\ glfatal = "none"
    /\ glcfg = [vsync |-> FALSE, srgb |-> FALSE]
    /\ candidates = <<>>
    /\ window = <<>>
    /\ config = 0
    /\ size = <<>>
    /\ surface = <<>>
    /\ context = "none"
    /\ swapInterval = "unset"
    /\ steps = <<>>
    /\ target = <<>>
    /\ resizes = 0

IdleWsl ==
    /\ wdistro = D_U
    /\ wprobe = ProbeErr
    /\ wresult = "idle"

Init == InitBridge /\ IdleGL /\ IdleWsl

Next ==
    \/ BuildNvimCmd /\ UNCHANGED <<glVars, wslVars>>
    \/ PlatformWhich /\ UNCHANGED <<glVars, wslVars>>
    \/ BuildNvimCmdWithArgs /\ UNCHANGED <<glVars, wslVars>>
    \/ CreateNvimCommand /\ UNCHANGED <<glVars, wslVars>>

Spec == Init /\ [][Next]_vars

InitSpecGL == IdleBridge /\ InitGL /\ IdleWsl

NextGL ==
    \/ BuildWindow /\ UNCHANGED <<bridgeVars, wslVars>>
    \/ ClampSize /\ UNCHANGED <<bridgeVars, wslVars>>
    \/ CreateSurface /\ UNCHANGED <<bridgeVars, wslVars>>
    \/ CreateContext /\ UNCHANGED <<bridgeVars, wslVars>>
    \/ MakeCurrent /\ UNCHANGED <<bridgeVars, wslVars>>
    \/ SetSwapInterval /\ UNCHANGED <<bridgeVars, wslVars>>
    \/ WindowResized /\ UNCHANGED <<bridgeVars, wslVars>>
    \/ GetRenderTargetSize /\ UNCHANGED <<bridgeVars, wslVars>>

SpecGL == InitSpecGL /\ [][NextGL]_vars

InitSpecWsl == IdleBridge /\ IdleGL /\ InitWsl

NextWsl == CheckWslDistro /\ UNCHANGED <<bridgeVars, glVars>>

SpecWsl == InitSpecWsl /\ [][NextWsl]_vars

-----------------------------------------------------------------------------
\* Properties

\* build_nvim_cmd_with_args ran: nvim_cmd_impl returned a command or panicked
Launched == pc \in {"built", "done"} \/ fatal = "panic: index out of bounds"

\* a LaunchSpec was produced
Built == pc \in {"built", "done"}

Last(q) == q[Len(q)]

HasWarn == \E i \in DOMAIN log : log[i].level = "warn"

\* C1: on every platform branch the argument list handed to nvim_cmd_impl is
\* "--embed" followed by exactly the configured extra arguments, in their order.
C1_BaseArgsEmbedThenConfigured ==
    Launched =>
        /\ Len(baseArgs) = Len(cfg.neovim_args) + 1
        /\ baseArgs[1] = S_embed
        /\ \A i \in 1..Len(cfg.neovim_args) : baseArgs[i + 1] = cfg.neovim_args[i]

C1_Witness ==
    /\ pc = "done"
    /\ cfg.target_os = "windows" /\ cfg.wsl
    /\ cfg.neovim_args = <<A_special, A_dashes>>
    /\ baseArgs = <<S_embed, A_special, A_dashes>>

\* C2: the binary of every LaunchSpec was confirmed on the target the LaunchSpec
\* spawns it on (with a verified distro: the one "-d" selects), and an explicit path
\* that failed validation is not the binary of the LaunchSpec.
C2_BinaryConfirmedOnSpawnTarget ==
    Built =>
        /\ confirmedOn = TargetOf(cmd)
        /\ rejected # <<>> => bin # rejected[2]

\* C3: a configured path that fails validation, whatever the check answered, leads
\* to a warning and to discovery; the run ends only when discovery finds nothing.
C3_InvalidExplicitPathNeverFatal ==
    (existsProbe # <<"none">> /\ platform_exists(existsCmd, existsProbe) # "true") =>
        /\ HasWarn
        /\ pc # "start"
        /\ fatal # "none" => fatal = "exit(1): nvim not found!"

\* C4: check_wsl_distro returns a boolean for every answer of the probe, false when
\* the probe could not be run, on an odd number of bytes and on invalid UTF-16, and
\* true exactly when a decoded line equals the distro asked for.
C4_CheckWslDistroTotal ==
    wresult \notin {"idle", "pending"} =>
        /\ wresult \in {"true", "false"}
        /\ (~ProbeRan(wprobe) \/ Len(wprobe[3]) % 2 = 1) => wresult = "false"
        /\ (ProbeRan(wprobe) /\ Len(wprobe[3]) % 2 = 0) =>
              LET decoded == from_utf16(from_ne_bytes(wprobe[3]))
              IN  wresult = "true" <=>
                     /\ decoded[1] = "Ok"
                     /\ \E i \in DOMAIN lines(decoded[2]) : lines(decoded[2])[i] = wdistro

\* the distro selector is among the arguments of the command
HasDistroSelector == \E i \in DOMAIN cmd.args : cmd.args[i] = S_d

\* the probe showed the configured distro to be installed
DistroVerified ==
    /\ IsSome(cfg.wsl_distro)
    /\ ProbeRan(distroProbe)
    /\ Len(distroProbe[3]) % 2 = 0
    /\ LET decoded == from_utf16(from_ne_bytes(distroProbe[3]))
       IN  /\ decoded[1] = "Ok"
           /\ \E i \in DOMAIN lines(decoded[2]) :
                 lines(decoded[2])[i] = Unwrap(cfg.wsl_distro)

\* C5: on windows with wsl, "-d" is in the LaunchSpec only for a configured and
\* verified distro; with a configured distro that is absent or whose probe failed
\* the launch proceeds, warned, as wsl $SHELL -lc "<command>" without "-d".
C5_UnverifiedDistroFallsBack ==
    (cfg.target_os = "windows" /\ cfg.wsl /\ Launched) =>
        /\ HasDistroSelector => DistroVerified
        /\ (IsSome(cfg.wsl_distro) /\ ~DistroVerified) =>
              /\ Built
              /\ HasWarn
              /\ cmd.program = S_wsl
              /\ cmd.args = <<S_SHELL, S_lc, format2(bin, join(baseArgs, <<" ">>))>>

\* clamp(v, 1, MAX_RENDERBUFFER_SIZE) as the specification words it
ClampedTo(v, r) ==
    /\ r \in 1..MAX_RENDERBUFFER_SIZE
    /\ v \in 1..MAX_RENDERBUFFER_SIZE => r = v
    /\ v < 1 => r = 1
    /\ v > MAX_RENDERBUFFER_SIZE => r = MAX_RENDERBUFFER_SIZE

\* C6: clamp_render_buffer_size clamps each axis on its own to
\* [1, MAX_RENDERBUFFER_SIZE], and applied to its own result returns it unchanged.
C6_ClampedPerAxisAndIdempotent ==
    /\ (size # <<>> /\ resizes = 0) =>
          /\ ClampedTo(window[1], size[1])
          /\ ClampedTo(window[2], size[2])
          /\ clamp_render_buffer_size(size) = size
    /\ target # <<>> =>
          /\ ClampedTo(target[1][1], target[2][1])
          /\ ClampedTo(target[1][2], target[2][2])
          /\ clamp_render_buffer_size(target[2]) = target[2]

C6_Witness ==
    /\ target # <<>>
    /\ target[1] = <<0, MAX_RENDERBUFFER_SIZE + 1>>
    /\ target[2] = <<1, MAX_RENDERBUFFER_SIZE>>
    /\ size = <<2, 1>>

\* the macos shape of a wrapped command: the shell of SHELL or /bin/sh, "-l" exactly
\* when TERM is absent and then first, "-c", and the command line as the one last argument
MacosWrapped(c, line) ==
    /\ c.program = (IF IsSome(cfg.SHELL) THEN Unwrap(cfg.SHELL) ELSE S_bin_sh)
    /\ (\E i \in DOMAIN c.args : c.args[i] = S_l) <=> ~cfg.TERM
    /\ \A i \in DOMAIN c.args : c.args[i] = S_l =>
          \E j \in DOMAIN c.args : i < j /\ c.args[j] = S_c
    /\ Len(c.args) >= 2
    /\ c.args[Len(c.args) - 1] = S_c
    /\ Cardinality({i \in DOMAIN c.args : c.args[i] = S_c}) = 1
    /\ Last(c.args) = line

\* C7: on macos the wrapped command runs the shell of SHELL, or /bin/sh, with "-l"
\* exactly when TERM is absent, "-l" before "-c", and "-c" followed by the command
\* with its arguments as one argument.
C7_MacosLoginFlagIffNoTerm ==
    cfg.target_os = "macos" =>
        /\ Built =>
              MacosWrapped(cmd, format2(bin, join([i \in 1..Len(baseArgs) |->
                                                      quote(baseArgs[i])], <<" ">>)))
        /\ IsSome(whichCmd) =>
              MacosWrapped(Unwrap(whichCmd), format2(S_which, S_nvim))

C7_Witness ==
    /\ cfg.target_os = "macos"
    /\ pc = "done"
    /\ ~cfg.TERM
    /\ cfg.SHELL = None
    /\ cmd.program = S_bin_sh
    /\ Len(cmd.args) = 3
    /\ cmd.args[1] = S_l
    /\ cfg.neovim_args = <<A_special>>
    /\ IsSome(whichCmd)

\* C8: on a host that is neither windows nor macos nothing is wrapped, whatever the
\* configuration: the LaunchSpec runs the binary itself with the base arguments, and
\* create_platform_shell_command returns no command.
C8_NoWrappingElsewhere ==
    cfg.target_os = "linux" =>
        /\ Built =>
              /\ cmd.program = bin
              /\ cmd.args = <<S_embed>> \o cfg.neovim_args
        /\ existsCmd = None
        /\ whichCmd = None
        /\ create_platform_shell_command(S_which, <<S_nvim>>) = None

C8_Witness ==
    /\ cfg.target_os = "linux"
    /\ cfg.wsl
    /\ pc = "done"
    /\ whichCrate = <<"Ok", "utf8", P_usr>>
    /\ cmd.program = P_usr
    /\ cmd.args = <<S_embed, A_dashes, A_file>>

\* platform_which ran
Discovered == whichProbe # <<"none">> \/ whichCrate # <<"none">>

\* the run ended inside platform_which or right after it returned
EndedInDiscovery ==
    fatal \in {"exit(1): nvim not found!", "panic: String::from_utf8(..).unwrap()"}

\* C9: a shell probe that ran is final (success: the trimmed stdout is the binary;
\* failure: not found, which::which not asked); which::which is asked only without
\* a shell probe or when it could not be run; discovery ends the run, with an
\* error, exactly when it found nothing.
C9_DiscoveryOrderAndFatal ==
    /\ whichProbe = <<"Ok", TRUE>> =>
          /\ whichCrate = <<"none">>
          /\ ~EndedInDiscovery
          /\ whichStdout[1] = "utf8"
          /\ bin = trim(whichStdout[2])
    /\ whichProbe = <<"Ok", FALSE>> =>
          /\ whichCrate = <<"none">>
          /\ fatal = "exit(1): nvim not found!"
    /\ whichCrate # <<"none">> => (whichCmd = None \/ whichProbe = <<"Err">>)
    /\ Discovered =>
          /\ EndedInDiscovery <=>
                /\ whichProbe # <<"Ok", TRUE>>
                /\ whichCrate[1] # "Ok" \/ whichCrate[2] # "utf8"
          /\ EndedInDiscovery =>
                /\ fatal = "exit(1): nvim not found!"
                /\ Last(log) = Logged("error", "nvim not found!")

ConstructionSteps == <<"window", "clamp", "surface", "context", "make_current">>

IsConstructionStep(st) == \E i \in DOMAIN ConstructionSteps : ConstructionSteps[i] = st

\* C10: build_context builds the window, clamps its size, creates the surface, creates
\* the context and makes it current, in this order; the surface is created with both
\* sides in [1, MAX_RENDERBUFFER_SIZE] whatever the window reports, the conversion to
\* non-zero never failing; making the context current is the last construction step
\* before the Context is returned.
C10_ConstructionOrder ==
    LET done == SelectSeq(steps, IsConstructionStep)
    IN  /\ Len(done) <= Len(ConstructionSteps)
        /\ done = SubSeq(ConstructionSteps, 1, Len(done))
        /\ glfatal # "panic: NonZeroU32::new(..).unwrap()"
        /\ surface # <<>> =>
              /\ surface[1] \in 1..MAX_RENDERBUFFER_SIZE
              /\ surface[2] \in 1..MAX_RENDERBUFFER_SIZE
        /\ glpc = "returned" =>
              /\ done = ConstructionSteps
              /\ context = "current"
              /\ surface # <<>>
              /\ steps = ConstructionSteps \o <<"set_swap_interval">>

C10_Witness ==
    /\ glpc = "returned"
    /\ resizes = 0
    /\ window = <<0, HugeSize>>
    /\ surface = <<1, MAX_RENDERBUFFER_SIZE, TRUE>>
    /\ context = "current"

====
